---------------------------- MODULE Spec2Model ----------------------------
(***************************************************************************)
(* Model of the tbot Server (src/server.go): registration of routes,       *)
(* aliases, default and file handlers on the server's Mux, the middleware  *)
(* list, and the serve loop that spawns one processMessage task per        *)
(* update.  The Mux implementation (NewDefaultMux) and processMessage are  *)
(* not part of src/server.go; they are modelled from spec.md sections 4.1  *)
(* to 4.3.                                                                 *)
(***************************************************************************)
EXTENDS Integers, Sequences, FiniteSets, TLC

VARIABLES
    mux,          \* Server.mux: [routes, aliases, def, file, conv]
    middlewares,  \* Server.middlewares, in registration order
    lsPc,         \* position of ListenAndServe
    nRecv,        \* number of updates received from the stream
    taskPc,       \* per update: position of its processMessage goroutine
    last,         \* outcome of the latest processMessage, while no
                  \* registration has followed it
    dropped,      \* number of events recorded as unhandled
    regRoute,     \* history: last handler passed to HandleFunc/Handle per path
    regAlias,     \* history: last route passed to SetAlias per alias
    regDef,       \* history: last handler passed to HandleDefault
    regFile,      \* history: last handler passed to HandleFile
    regErr,       \* history: how the latest HandleFunc call ended
    regMids,      \* history: middlewares passed to AddMiddleware, in call order
    srv,          \* result of NewServer: the other Server fields, or the error
    newArgs,      \* history: the token and options NewServer was called with
    stream,       \* the update channel of the adapter: "open" or "closed"
    chanErr,      \* history: the error GetUpdatesChan returned
    taskUpd,      \* per task: the update its processMessage was given
    taskRun,      \* per task: the event, handler and middleware list its
                  \* processMessage works with
    atSpawn,      \* history, per task in flight: Server.middlewares when it
                  \* was spawned
    writing,      \* the middleware an AddMiddleware in progress is storing
    convOps,      \* history: the conversation-state operations issued
    resetRun      \* history: the latest Reset and how often it was repeated

vars == <<mux, middlewares, lsPc, nRecv, taskPc, last, dropped,
          regRoute, regAlias, regDef, regFile, regErr, regMids,
          srv, newArgs, stream, chanErr, taskUpd, taskRun, atSpawn, writing,
          convOps, resetRun>>

muxVars == <<mux, regRoute, regAlias, regDef, regFile, regErr>>
midVars == <<middlewares, regMids>>
serveVars == <<lsPc, nRecv, taskPc, dropped>>
newVars == <<srv, newArgs>>
taskVars == <<taskUpd, taskRun, atSpawn>>
convVars == <<convOps, resetRun>>
\* What registration on the mux and AddMiddleware leave alone.
restVars == <<newVars, stream, chanErr, taskVars, writing, convVars>>

-----------------------------------------------------------------------------
(* Bounds *)

MaxEvents == 2
MaxMids == 3
MaxOpts == 2
MaxResets == 2

-----------------------------------------------------------------------------
(* Values *)

\* Command strings as sequences of characters.
S_empty  == <<>>
S_help   == <<"/", "h", "e", "l", "p">>
S_start  == <<"/", "s", "t", "a", "r", "t">>
S_go     == <<"/", "g", "o">>
S_Help   == <<"/", "H", "e", "l", "p">>
S_hel    == <<"/", "h", "e", "l">>
S_helpx  == <<"/", "h", "e", "l", "p", "x">>
S_helpArg == <<"/", "h", "e", "l", "p", " ", "x">>

Paths == {S_help, S_start}
AliasNames == {S_start, S_go}
Texts == {S_empty, S_help, S_start, S_go, S_Help, S_hel, S_helpx, S_helpArg}

Nil == <<"nil", "">>
HelpHandler == <<"method", "HelpHandler">>
Funcs == {<<"func", "h1">>, <<"func", "h2">>}
DefaultFuncs == {<<"func", "h1">>}
Replies == {"hi"}
Mids == {"log", "auth", "deny"}

Events == [kind : {"text"}, text : Texts] \cup [kind : {"file"}, text : {S_help}]

NoOutcome == [ev |-> [kind |-> "none", text |-> <<>>], via |-> "unset",
              handler |-> Nil, mids |-> <<>>, log |-> <<>>]

-----------------------------------------------------------------------------
(* Maps with a dynamic key set, as Go maps *)

Range(f) == {f[i] : i \in DOMAIN f}

Lookup(m, k) == IF k \in DOMAIN m THEN m[k] ELSE Nil

Put(m, k, v) == [x \in DOMAIN m \cup {k} |-> IF x = k THEN v ELSE m[x]]

RECURSIVE PutAll(_, _, _)
PutAll(m, ks, v) ==
    IF ks = {} THEN m
    ELSE LET k == CHOOSE x \in ks : TRUE
         IN PutAll(Put(m, k, v), ks \ {k}, v)

-----------------------------------------------------------------------------
(* The default Mux, spec.md section 4.1.  The descriptions passed to the    *)
(* registration methods only feed the help text and are left out.           *)

\* The chat ids of the model, and the conversation state of a chat that
\* has none.
Chats == {42, 7}

NoState == <<>>

NewDefaultMux ==
    [routes |-> <<>>, aliases |-> <<>>, def |-> Nil, file |-> Nil,
     conv |-> [c \in Chats |-> NoState]]

\* The conversation-state store of the Mux: each operation is one atomic
\* step on the store (spec 4.3: the storage is safe under concurrent
\* read/write/delete).
Mux_Reset(m, chatID) == [m EXCEPT !.conv[chatID] = NoState]

Mux_SetState(m, chatID, state) == [m EXCEPT !.conv[chatID] = state]

\* What HandleFunc requires of its arguments (spec 4.1): a non-empty path
\* and a non-nil handler.
ValidRoute(path, handler) == path # S_empty /\ handler # Nil

\* An invalid registration fails fast and stores nothing.
Mux_HandleFunc(m, path, handler) ==
    IF ValidRoute(path, handler)
    THEN [m EXCEPT !.routes = Put(m.routes, path, handler)]
    ELSE m

Mux_HandleFile(m, handler) == [m EXCEPT !.file = handler]

Mux_HandleDefault(m, handler) == [m EXCEPT !.def = handler]

Mux_SetAlias(m, route, aliases) ==
    [m EXCEPT !.aliases = PutAll(m.aliases, aliases, route)]

\* The command of a text: its leading token, up to the first space.
ExtractCommand(text) ==
    LET spaces == {i \in 1..Len(text) : text[i] = " "}
    IN IF spaces = {} THEN text
       ELSE SubSeq(text, 1, (CHOOSE i \in spaces : \A j \in spaces : i <= j) - 1)

Fallback(m) ==
    IF m.def # Nil THEN [via |-> "default", handler |-> m.def]
    ELSE [via |-> "none", handler |-> Nil]

\* Resolve(event) -> handler: file uploads bypass path resolution; a text
\* is looked up in the route table, then through one level of alias, then
\* falls back to the default handler, and is unresolved otherwise.
Resolve(m, ev) ==
    IF ev.kind = "file"
    THEN IF m.file # Nil THEN [via |-> "file", handler |-> m.file]
         ELSE Fallback(m)
    ELSE LET cmd == ExtractCommand(ev.text)
             target == Lookup(m.aliases, cmd)
         IN IF cmd \in DOMAIN m.routes
            THEN [via |-> "route", handler |-> m.routes[cmd]]
            ELSE IF cmd \in DOMAIN m.aliases /\ target \in DOMAIN m.routes
            THEN [via |-> "alias", handler |-> m.routes[target]]
            ELSE Fallback(m)

-----------------------------------------------------------------------------
(* The middleware chain, spec.md section 4.2 *)

\* Whether wrapper mid invokes the handler it was given.
CallsNext(mid) == mid # "deny"

\* m1(m2(...mn(h)...)): the handler is wrapped from the last middleware to
\* the first, so that the first registered one is outermost.
RECURSIVE Compose(_, _)
Compose(mids, h) ==
    IF mids = <<>> THEN h
    ELSE <<"wrap", Head(mids), Compose(Tail(mids), h)>>

\* The steps taken when the composed handler f is called.
RECURSIVE Invoke(_)
Invoke(f) ==
    IF f[1] = "wrap"
    THEN IF CallsNext(f[2])
         THEN <<<<"enter", f[2]>>>> \o Invoke(f[3]) \o <<<<"exit", f[2]>>>>
         ELSE <<<<"enter", f[2]>>, <<"exit", f[2]>>>>
    ELSE <<f>>

-----------------------------------------------------------------------------
(* Server methods of src/server.go, as functions of the fields they change. *)
(* Each method is preceded by faulty variants of it (a wrong delegation, a   *)
(* lost or misplaced write) that the properties below must tell apart.       *)

Server_HandleFunc_AsDefault(m, path, handler) == Mux_HandleDefault(m, handler)

Server_HandleFunc_KeepFirst(m, path, handler) ==
    IF path \in DOMAIN m.routes THEN m ELSE Mux_HandleFunc(m, path, handler)

Server_HandleFunc_NoDelegate(m, path, handler) == m

Server_HandleFunc_Unchecked(m, path, handler) ==
    [m EXCEPT !.routes = Put(m.routes, path, handler)]

Server_HandleFunc(m, path, handler) == Mux_HandleFunc(m, path, handler)

\* Handle wraps the static reply in a handler and registers it.
Server_Handle(m, path, reply) == Server_HandleFunc(m, path, <<"reply", reply>>)

Server_HandleFile_AsDefault(m, handler) == Mux_HandleDefault(m, handler)

Server_HandleFile_KeepFirst(m, handler) ==
    IF m.file # Nil THEN m ELSE Mux_HandleFile(m, handler)

Server_HandleFile(m, handler) == Mux_HandleFile(m, handler)

Server_HandleDefault_AsFile(m, handler) == Mux_HandleFile(m, handler)

Server_HandleDefault(m, handler) == Mux_HandleDefault(m, handler)

RECURSIVE Server_SetAlias_Swapped(_, _, _)
Server_SetAlias_Swapped(m, route, aliases) ==
    IF aliases = {} THEN m
    ELSE LET a == CHOOSE x \in aliases : TRUE
         IN Server_SetAlias_Swapped(Mux_SetAlias(m, a, {route}), route, aliases \ {a})

Server_SetAlias_Eager(m, route, aliases) ==
    IF route \in DOMAIN m.routes THEN Mux_SetAlias(m, route, aliases) ELSE m

Server_SetAlias(m, route, aliases) == Mux_SetAlias(m, route, aliases)

Server_AddMiddleware_Prepend(mids, mid) == <<mid>> \o mids

Server_AddMiddleware_Replace(mids, mid) == <<mid>>

Server_AddMiddleware(mids, mid) == Append(mids, mid)

\* NewServer with no options and a bot that is created: the default mux
\* with the "/help" route registered.
Server_Reset_Noop(m, chatID) == m

Server_Reset_All(m, chatID) == [m EXCEPT !.conv = [c \in Chats |-> NoState]]

Server_Reset(m, chatID) == Mux_Reset(m, chatID)

NewServerMux == Server_HandleFunc(NewDefaultMux, S_help, HelpHandler)

-----------------------------------------------------------------------------
(* Construction: the options and NewServer *)

GoodToken == "token"
BadToken == "bad-token"
DefaultClient == "http.DefaultClient"
Clients == {"clientA", "clientB"}

\* Muxes a caller may pass to WithMux: one that already routes "/help" and
\* "/start", one that only has a default handler.
CustomMuxes == {"muxA", "muxB"}
MuxValue(name) ==
    IF name = "muxA"
    THEN Mux_HandleFunc(Mux_HandleFunc(NewDefaultMux, S_help, <<"func", "h1">>),
                        S_start, <<"func", "h2">>)
    ELSE Mux_HandleDefault(NewDefaultMux, <<"func", "h1">>)

WithWebhook(url, addr) == <<"WithWebhook", url, addr>>
WithMux(name) == <<"WithMux", name, "">>
WithHttpClient(client) == <<"WithHttpClient", client, "">>

Options ==
    {WithWebhook("urlA", "addrA"), WithWebhook("urlB", "addrB")}
        \cup {WithMux(n) : n \in CustomMuxes}
        \cup {WithHttpClient(c) : c \in Clients}

OptionLists == UNION {[1..n -> Options] : n \in 0..MaxOpts}

NoBot == [token |-> "", client |-> ""]

\* The Server literal NewServer starts from.
NewServerLiteral ==
    [isNil |-> FALSE, mux |-> NewDefaultMux, httpClient |-> DefaultClient,
     webhookURL |-> "", listenAddr |-> "", bot |-> NoBot, middlewares |-> <<>>]

NilServer ==
    [isNil |-> TRUE, mux |-> NewDefaultMux, httpClient |-> "",
     webhookURL |-> "", listenAddr |-> "", bot |-> NoBot, middlewares |-> <<>>]

\* An option applied to the server.
ApplyOption(server, o) ==
    IF o[1] = "WithWebhook"
    THEN [server EXCEPT !.webhookURL = o[2], !.listenAddr = o[3]]
    ELSE IF o[1] = "WithMux"
    THEN [server EXCEPT !.mux = MuxValue(o[2])]
    ELSE [server EXCEPT !.httpClient = o[2]]

RECURSIVE ApplyOptions_Reversed(_, _)
ApplyOptions_Reversed(server, options) ==
    IF options = <<>> THEN server
    ELSE ApplyOption(ApplyOptions_Reversed(server, Tail(options)), Head(options))

\* for _, option := range options { option(server) }
RECURSIVE ApplyOptions(_, _)
ApplyOptions(server, options) ==
    IF options = <<>> THEN server
    ELSE ApplyOptions(ApplyOption(server, Head(options)), Tail(options))

\* createBot: the adapter creates the bot from the token and the client, or
\* fails.
CreateBot(token, client) ==
    IF token = GoodToken
    THEN [bot |-> [token |-> token, client |-> client], err |-> "nil"]
    ELSE [bot |-> NoBot, err |-> "create-bot-error"]

NewServer(token, options) ==
    LET server == ApplyOptions(NewServerLiteral, options)
        created == CreateBot(token, server.httpClient)
    IN IF created.err # "nil"
       THEN [server |-> NilServer, err |-> created.err]
       ELSE [server |-> [server EXCEPT
                            !.bot = created.bot,
                            !.mux = Server_HandleFunc(server.mux, S_help, HelpHandler)],
             err |-> "nil"]

\* The fields of a NewServer result kept in srv.
SrvOf(result) ==
    [phase |-> IF result.err = "nil" THEN "ok" ELSE "err",
     err |-> result.err,
     isNil |-> result.server.isNil,
     httpClient |-> result.server.httpClient,
     webhookURL |-> result.server.webhookURL,
     listenAddr |-> result.server.listenAddr,
     bot |-> result.server.bot]

NotConstructed ==
    [phase |-> "none", err |-> "nil", isNil |-> TRUE, httpClient |-> "",
     webhookURL |-> "", listenAddr |-> "", bot |-> NoBot]

NoConvRun == [chat |-> 0, n |-> 0]

NoRun == [ev |-> [kind |-> "none", text |-> <<>>], via |-> "unset",
          handler |-> Nil, mids |-> <<>>]

-----------------------------------------------------------------------------
(* Initial state: a server returned by NewServer(token) *)

Init ==
    /\ mux = NewServerMux
    /\ middlewares = <<>>
    /\ lsPc = "idle"
    /\ nRecv = 0
    /\ taskPc = [t \in 1..MaxEvents |-> "none"]
    /\ last = NoOutcome
    /\ dropped = 0
    /\ regRoute = Put(<<>>, S_help, HelpHandler)
    /\ regAlias = <<>>
    /\ regDef = Nil
    /\ regFile = Nil
    /\ regMids = <<>>
    /\ srv = SrvOf(NewServer(GoodToken, <<>>))
    /\ newArgs = [token |-> GoodToken, opts |-> <<>>]
    /\ stream = "open"
    /\ chanErr = "unset"
    /\ taskUpd = [t \in 1..MaxEvents |-> 0]
    /\ taskRun = [t \in 1..MaxEvents |-> NoRun]
    /\ atSpawn = [t \in 1..MaxEvents |-> <<>>]
    /\ writing = <<>>
    /\ convOps = {}
    /\ resetRun = NoConvRun
    /\ regErr = "none"

-----------------------------------------------------------------------------
(* Registration *)

HandleFunc(path, handler) ==
    /\ mux' = Server_HandleFunc(mux, path, handler)
    /\ regRoute' = IF ValidRoute(path, handler) THEN Put(regRoute, path, handler)
                   ELSE regRoute
    /\ regErr' = IF ValidRoute(path, handler) THEN "none" ELSE "panic"
    /\ last' = NoOutcome
    /\ UNCHANGED <<regAlias, regDef, regFile, midVars, serveVars, restVars>>

Handle(path, reply) ==
    /\ mux' = Server_Handle(mux, path, reply)
    /\ regRoute' = Put(regRoute, path, <<"reply", reply>>)
    /\ last' = NoOutcome
    /\ UNCHANGED <<regAlias, regDef, regFile, regErr, midVars, serveVars, restVars>>

HandleFile(handler) ==
    /\ mux' = Server_HandleFile(mux, handler)
    /\ regFile' = handler
    /\ last' = NoOutcome
    /\ UNCHANGED <<regRoute, regAlias, regDef, regErr, midVars, serveVars, restVars>>

HandleDefault(handler) ==
    /\ mux' = Server_HandleDefault(mux, handler)
    /\ regDef' = handler
    /\ last' = NoOutcome
    /\ UNCHANGED <<regRoute, regAlias, regFile, regErr, midVars, serveVars, restVars>>

SetAlias(route, aliases) ==
    /\ mux' = Server_SetAlias(mux, route, aliases)
    /\ regAlias' = PutAll(regAlias, aliases, route)
    /\ last' = NoOutcome
    /\ UNCHANGED <<regRoute, regDef, regFile, regErr, midVars, serveVars, restVars>>

AddMiddleware(mid) ==
    /\ Len(regMids) < MaxMids
    /\ middlewares' = Server_AddMiddleware(middlewares, mid)
    /\ regMids' = Append(regMids, mid)
    /\ last' = NoOutcome
    /\ UNCHANGED <<muxVars, serveVars, restVars>>

-----------------------------------------------------------------------------
(* Serving *)

\* The loop body `go s.processMessage(...)`: start the task of update t.
Spawn(pcs, t) == [pcs EXCEPT ![t] = "spawned"]

SpawnArg_Previous(u) == IF u > 1 THEN u - 1 ELSE u

\* The update given to the task spawned for update u: the argument of
\* processMessage is evaluated by the go statement, in the loop.
SpawnArg(u) == u

LoopReady_Drain(pcs) == \A t \in DOMAIN pcs : pcs[t] # "running"

LoopReady_Sync(pcs) == \A t \in DOMAIN pcs : pcs[t] \notin {"spawned", "running"}

\* Whether the loop may take its next step, given the tasks it has spawned:
\* the go statement returns at once and the loop never joins a task.
LoopReady(pcs) == TRUE

AfterGetUpdatesChan_Ignore(err) == "serving"

\* if err != nil { return err }, else the loop over the updates.
AfterGetUpdatesChan(err) == IF err # "nil" THEN "failed" ELSE "serving"

\* GetUpdatesChan fails: ListenAndServe returns the error.
ListenAndServe_Fail ==
    /\ lsPc = "idle"
    /\ lsPc' = AfterGetUpdatesChan("err")
    /\ chanErr' = "err"
    /\ UNCHANGED <<muxVars, midVars, nRecv, taskPc, last, dropped,
                   newVars, stream, taskVars, writing, convVars>>

\* GetUpdatesChan succeeds: the loop over the updates begins.
ListenAndServe_Start ==
    /\ lsPc = "idle"
    /\ lsPc' = AfterGetUpdatesChan("nil")
    /\ chanErr' = "nil"
    /\ UNCHANGED <<muxVars, midVars, nRecv, taskPc, last, dropped,
                   newVars, stream, taskVars, writing, convVars>>

\* One iteration of the loop: an update is received and its task spawned.
\* The channel hands an update over in one step (sending and receiving).
ListenAndServe_Recv ==
    /\ lsPc = "serving"
    /\ stream = "open"
    /\ LoopReady(taskPc)
    /\ nRecv < MaxEvents
    /\ nRecv' = nRecv + 1
    /\ taskPc' = Spawn(taskPc, nRecv + 1)
    /\ taskUpd' = [taskUpd EXCEPT ![nRecv + 1] = SpawnArg(nRecv + 1)]
    /\ atSpawn' = [atSpawn EXCEPT ![nRecv + 1] = middlewares]
    /\ UNCHANGED <<muxVars, midVars, lsPc, last, dropped,
                   newVars, stream, chanErr, taskRun, writing, convVars>>

\* The stream is closed and the loop ends: ListenAndServe returns nil.
\* (StreamClose and ListenAndServe_Return below, taken as one step.)
ListenAndServe_Closed ==
    /\ lsPc = "serving"
    /\ stream = "open"
    /\ LoopReady(taskPc)
    /\ stream' = "closed"
    /\ lsPc' = "returned"
    /\ UNCHANGED <<muxVars, midVars, nRecv, taskPc, last, dropped,
                   newVars, chanErr, taskVars, writing, convVars>>

\* processMessage of update t, whose content ev is read here: resolve the
\* handler, wrap it with the middlewares as they are now, and call it.  An
\* event that resolves to no handler is counted as dropped.
ProcessMessage(t, ev) ==
    /\ taskPc[t] = "spawned"
    /\ LET r == Resolve(mux, ev)
       IN IF r.handler = Nil
          THEN /\ dropped' = dropped + 1
               /\ last' = [ev |-> ev, via |-> "none", handler |-> Nil,
                           mids |-> middlewares, log |-> <<>>]
          ELSE /\ dropped' = dropped
               /\ last' = [ev |-> ev, via |-> r.via,
                           handler |-> r.handler, mids |-> middlewares,
                           log |-> Invoke(Compose(middlewares, r.handler))]
    /\ taskPc' = [taskPc EXCEPT ![t] = "done"]
    /\ atSpawn' = [atSpawn EXCEPT ![t] = <<>>]
    /\ UNCHANGED <<muxVars, midVars, lsPc, nRecv,
                   newVars, stream, chanErr, taskUpd, taskRun, writing, convVars>>

-----------------------------------------------------------------------------
(* Serving, step by step: the stream closes before the loop returns, and a   *)
(* task starts processMessage, runs the handler for a while, and ends.       *)

\* The updates of the step-by-step tasks: a routed and an unrouted command.
TaskEvents == [kind : {"text"}, text : {S_help, S_go}]

\* The adapter closes the update channel.
StreamClose ==
    /\ lsPc = "serving"
    /\ stream = "open"
    /\ stream' = "closed"
    /\ UNCHANGED <<muxVars, midVars, serveVars, last,
                   newVars, chanErr, taskVars, writing, convVars>>

\* The range over the closed channel ends: return nil.
ListenAndServe_Return ==
    /\ lsPc = "serving"
    /\ stream = "closed"
    /\ LoopReady(taskPc)
    /\ lsPc' = "returned"
    /\ UNCHANGED <<muxVars, midVars, nRecv, taskPc, dropped, last,
                   newVars, stream, chanErr, taskVars, writing, convVars>>

\* What a task may read from Server.middlewares.  Neither AddMiddleware nor
\* the Server holds a lock, so a read during a store races with it: it
\* yields the old slice, the new one, or the old array with the new length,
\* whose last element is not the stored middleware.
ReadMiddlewares ==
    IF writing = <<>> THEN {middlewares}
    ELSE {middlewares, Append(middlewares, writing[1]), Append(middlewares, "torn")}

\* processMessage begins: the handler is resolved and the middleware list
\* read; the composed handler is running from here on.
Task_Begin(t, ev) ==
    /\ lsPc # "crashed"
    /\ taskPc[t] = "spawned"
    /\ \E mids \in ReadMiddlewares :
          LET r == Resolve(mux, ev)
          IN taskRun' = [taskRun EXCEPT ![t] =
                            [ev |-> ev, via |-> r.via, handler |-> r.handler,
                             mids |-> mids]]
    /\ taskPc' = [taskPc EXCEPT ![t] = "running"]
    /\ UNCHANGED <<muxVars, midVars, lsPc, nRecv, dropped, last,
                   newVars, stream, chanErr, taskUpd, atSpawn, writing, convVars>>

\* The composed handler returns and the task ends.  A task may also stay
\* running for ever: no step is owed to a handler that hangs.
Task_Finish(t) ==
    /\ lsPc # "crashed"
    /\ taskPc[t] = "running"
    /\ taskRun[t].handler = Nil \/ "torn" \notin Range(taskRun[t].mids)
    /\ LET run == taskRun[t]
       IN IF run.handler = Nil
          THEN /\ dropped' = dropped + 1
               /\ last' = [ev |-> run.ev, via |-> "none", handler |-> Nil,
                           mids |-> run.mids, log |-> <<>>]
          ELSE /\ dropped' = dropped
               /\ last' = [ev |-> run.ev, via |-> run.via, handler |-> run.handler,
                           mids |-> run.mids,
                           log |-> Invoke(Compose(run.mids, run.handler))]
    /\ taskPc' = [taskPc EXCEPT ![t] = "done"]
    /\ taskRun' = [taskRun EXCEPT ![t] = NoRun]
    /\ atSpawn' = [atSpawn EXCEPT ![t] = <<>>]
    /\ UNCHANGED <<muxVars, midVars, lsPc, nRecv,
                   newVars, stream, chanErr, taskUpd, writing, convVars>>

Recovered_None(ls) == "crashed"

\* The state of the process after a handler panicked: the panic is caught
\* in the task, the serve loop is as it was.
Recovered(ls) == ls

\* The handler, or a call through a torn middleware list, panics.
Task_Panic(t) ==
    /\ lsPc # "crashed"
    /\ taskPc[t] = "running"
    /\ taskRun[t].handler # Nil
    /\ taskPc' = [taskPc EXCEPT ![t] = "failed"]
    /\ lsPc' = Recovered(lsPc)
    /\ taskRun' = [taskRun EXCEPT ![t] = NoRun]
    /\ atSpawn' = [atSpawn EXCEPT ![t] = <<>>]
    /\ UNCHANGED <<muxVars, midVars, nRecv, dropped, last,
                   newVars, stream, chanErr, taskUpd, writing, convVars>>

\* AddMiddleware called while tasks run, in two steps: the call begins, and
\* the store to Server.middlewares completes.
AddMiddleware_Begin(mid) ==
    /\ writing = <<>>
    /\ Len(regMids) < MaxMids
    /\ writing' = <<mid>>
    /\ UNCHANGED <<muxVars, midVars, serveVars, last,
                   newVars, stream, chanErr, taskVars, convVars>>

AddMiddleware_End ==
    /\ writing # <<>>
    /\ middlewares' = Server_AddMiddleware(middlewares, writing[1])
    /\ regMids' = Append(regMids, writing[1])
    /\ writing' = <<>>
    /\ last' = NoOutcome
    /\ UNCHANGED <<muxVars, serveVars,
                   newVars, stream, chanErr, taskVars, convVars>>

-----------------------------------------------------------------------------
(* The conversation state: Reset, and the writes of running handlers.        *)

Resets == {o \in convOps : o[1] = "reset"}

\* Server.Reset(chatID), called from any goroutine at any time.
Reset(chatID) ==
    /\ Cardinality(Resets) < MaxResets
    /\ mux' = Server_Reset(mux, chatID)
    /\ convOps' = convOps \cup {<<"reset", Cardinality(Resets) + 1, chatID>>}
    /\ resetRun' = IF resetRun.chat = chatID
                   THEN [chat |-> chatID, n |-> resetRun.n + 1]
                   ELSE [chat |-> chatID, n |-> 1]
    /\ UNCHANGED <<regRoute, regAlias, regDef, regFile, regErr, midVars, serveVars, last,
                   newVars, stream, chanErr, taskVars, writing>>

\* The handler of task t stores its continuation data for a chat.
Task_Write(t, chatID) ==
    /\ lsPc # "crashed"
    /\ taskPc[t] = "running"
    /\ \A c \in Chats : <<"set", t, c>> \notin convOps
    /\ mux' = Mux_SetState(mux, chatID, <<"state", t>>)
    /\ convOps' = convOps \cup {<<"set", t, chatID>>}
    /\ resetRun' = NoConvRun
    /\ UNCHANGED <<regRoute, regAlias, regDef, regFile, regErr, midVars, serveVars, last,
                   newVars, stream, chanErr, taskVars, writing>>

ConvSteps ==
    \/ \E c \in Chats : Reset(c)
    \/ \E t \in 1..MaxEvents, c \in Chats : Task_Write(t, c)

ServeSteps ==
    \/ ListenAndServe_Fail
    \/ ListenAndServe_Start
    \/ ListenAndServe_Recv
    \/ StreamClose
    \/ ListenAndServe_Return
    \/ \E t \in 1..MaxEvents, ev \in TaskEvents : Task_Begin(t, ev)
    \/ \E t \in 1..MaxEvents : Task_Finish(t)
    \/ \E t \in 1..MaxEvents : Task_Panic(t)

RaceSteps ==
    \/ \E mid \in {"log"} : AddMiddleware_Begin(mid)
    \/ AddMiddleware_End

\* The registration calls, with their arguments drawn from small sets.
Register ==
    \/ \E p \in Paths, h \in Funcs : HandleFunc(p, h)
    \/ \E r \in Replies : Handle(S_start, r)
    \/ \E h \in Funcs : HandleFile(h)
    \/ \E h \in DefaultFuncs : HandleDefault(h)
    \/ \E r \in Paths, as \in (SUBSET AliasNames) \ {{}} : SetAlias(r, as)

Serve ==
    \/ ListenAndServe_Fail
    \/ ListenAndServe_Start
    \/ ListenAndServe_Recv
    \/ ListenAndServe_Closed
    \/ \E t \in 1..MaxEvents, ev \in Events : ProcessMessage(t, ev)

Next ==
    \/ Register
    \/ \E mid \in Mids : AddMiddleware(mid)
    \/ Serve
    \/ ServeSteps
    \/ RaceSteps
    \/ ConvSteps

Spec == Init /\ [][Next]_vars

\* The routing subsystem: registration on the mux and serving.
NextMux == Register \/ Serve

SpecMux == Init /\ [][NextMux]_vars

\* The middleware chain: AddMiddleware and serving.
NextChain == (\E mid \in Mids : AddMiddleware(mid)) \/ Serve

SpecChain == Init /\ [][NextChain]_vars

\* The serve loop and its tasks, step by step.
SpecServe == Init /\ [][ServeSteps]_vars

\* The same, the loop being scheduled whenever it can return.
SpecServeFair == SpecServe /\ WF_vars(ListenAndServe_Return)

\* AddMiddleware called while the tasks run.
NextRace == ServeSteps \/ RaceSteps

SpecRace == Init /\ [][NextRace]_vars

\* The program before NewServer is called.
InitNew ==
    /\ mux = NewDefaultMux
    /\ middlewares = <<>>
    /\ lsPc = "idle"
    /\ nRecv = 0
    /\ taskPc = [t \in 1..MaxEvents |-> "none"]
    /\ last = NoOutcome
    /\ dropped = 0
    /\ regRoute = <<>>
    /\ regAlias = <<>>
    /\ regDef = Nil
    /\ regFile = Nil
    /\ regMids = <<>>
    /\ srv = NotConstructed
    /\ newArgs = [token |-> "", opts |-> <<>>]
    /\ stream = "open"
    /\ chanErr = "unset"
    /\ taskUpd = [t \in 1..MaxEvents |-> 0]
    /\ taskRun = [t \in 1..MaxEvents |-> NoRun]
    /\ atSpawn = [t \in 1..MaxEvents |-> <<>>]
    /\ writing = <<>>
    /\ convOps = {}
    /\ resetRun = NoConvRun
    /\ regErr = "none"

\* NewServer(token, options...): on success the server's mux is the one in
\* effect after the options, and "/help" is the one path registered through
\* the server so far.
Construct(token, options) ==
    /\ srv.phase = "none"
    /\ LET result == NewServer(token, options)
       IN /\ srv' = SrvOf(result)
          /\ mux' = result.server.mux
          /\ middlewares' = result.server.middlewares
          /\ regRoute' = IF result.err = "nil" THEN Put(<<>>, S_help, HelpHandler)
                         ELSE <<>>
    /\ newArgs' = [token |-> token, opts |-> options]
    /\ UNCHANGED <<regAlias, regDef, regFile, regErr, regMids, serveVars, last,
                   stream, chanErr, taskVars, writing, convVars>>

NewEvents == [kind : {"text"}, text : {S_help, S_start, S_go}]

\* NewServer with every token and option list, and the returned server
\* registering further routes and serving.
NextNew ==
    \/ \E token \in {GoodToken, BadToken}, options \in OptionLists :
          Construct(token, options)
    \/ srv.phase = "ok" /\ \E p \in Paths, h \in Funcs : HandleFunc(p, h)
    \/ srv.phase = "ok" /\ ListenAndServe_Start
    \/ srv.phase = "ok" /\ ListenAndServe_Recv
    \/ srv.phase = "ok"
          /\ \E t \in 1..MaxEvents, ev \in NewEvents : ProcessMessage(t, ev)

SpecNew == InitNew /\ [][NextNew]_vars

\* Registration with arguments of every kind, invalid ones included, and
\* the dispatch of commands and of an empty text.
RegPaths == Paths \cup {S_empty}

RegFuncs == Funcs \cup {Nil}

RegEvents == [kind : {"text"}, text : {S_empty, S_help, S_start}]

NextReg ==
    \/ \E p \in RegPaths, h \in RegFuncs : HandleFunc(p, h)
    \/ ListenAndServe_Start
    \/ ListenAndServe_Recv
    \/ \E t \in 1..MaxEvents, ev \in RegEvents : ProcessMessage(t, ev)

SpecReg == Init /\ [][NextReg]_vars

\* Tasks writing conversation state while Reset is called.
NextConv ==
    \/ ListenAndServe_Start
    \/ ListenAndServe_Recv
    \/ \E t \in 1..MaxEvents : Task_Begin(t, [kind |-> "text", text |-> S_help])
    \/ \E t \in 1..MaxEvents : Task_Finish(t)
    \/ ConvSteps

SpecConv == Init /\ [][NextConv]_vars

-----------------------------------------------------------------------------
(* Vocabulary of the properties *)

IsText == last.ev.kind = "text"
IsFile == last.ev.kind = "file"
Cmd == ExtractCommand(last.ev.text)

\* The handlers called during the latest dispatch, middleware steps left out.
Called == SelectSeq(last.log, LAMBDA e : e[1] \notin {"enter", "exit"})

\* The latest dispatch called h and no other handler; a middleware that does
\* not call its next handler may keep h from being called.
Invokes(h) ==
    /\ \A e \in Range(Called) : e = h
    /\ (\A i \in DOMAIN last.mids : CallsNext(last.mids[i])) => Called = <<h>>

DoneTasks == {t \in 1..MaxEvents : taskPc[t] = "done"}

-----------------------------------------------------------------------------
(* Routing properties, checked under SpecMux *)

\* C1: after any registrations, a text event whose command equals a path P
\* registered with handler H resolves to H through the route table, and H
\* is the only handler called.
C1_ExactMatch ==
    \A p \in DOMAIN regRoute :
        (IsText /\ Cmd = p) =>
            /\ last.via = "route"
            /\ last.handler = regRoute[p]
            /\ Invokes(regRoute[p])

C1_Witness ==
    /\ IsText /\ last.ev.text = S_start
    /\ last.via = "route" /\ last.handler = <<"func", "h2">>
    /\ S_start \in DOMAIN regAlias
    /\ regDef # Nil /\ regFile # Nil

\* C2: a text event whose command is an alias A of a registered route R, A
\* not being a path itself, calls the handler R has at dispatch time.
C2_AliasResolves ==
    \A a \in DOMAIN regAlias :
        (IsText /\ Cmd = a /\ a \notin DOMAIN regRoute
                /\ regAlias[a] \in DOMAIN regRoute) =>
            /\ last.via = "alias"
            /\ last.handler = regRoute[regAlias[a]]
            /\ Invokes(regRoute[regAlias[a]])

C2_Witness ==
    /\ IsText /\ last.ev.text = S_go
    /\ regAlias = Put(Put(<<>>, S_go, S_start), S_start, S_help)
    /\ last.via = "alias" /\ last.handler = <<"reply", "hi">>

\* C3: SetAlias(R, A) with R unregistered is stored as given, and a text
\* event whose command is A, while R is unregistered, calls the default
\* handler if one is set, no handler otherwise, and never a route handler.
C3_DanglingAlias ==
    /\ \A a \in DOMAIN regAlias : Lookup(mux.aliases, a) = regAlias[a]
    /\ \A a \in DOMAIN regAlias :
        (IsText /\ Cmd = a /\ a \notin DOMAIN regRoute
                /\ regAlias[a] \notin DOMAIN regRoute) =>
            /\ last.via \notin {"route", "alias"}
            /\ regDef # Nil => last.via = "default" /\ Invokes(regDef)
            /\ regDef = Nil => last.via = "none" /\ Called = <<>>

C3_Witness ==
    /\ IsText /\ last.ev.text = S_go
    /\ S_go \in DOMAIN regAlias /\ regAlias[S_go] = S_start
    /\ S_start \notin DOMAIN regRoute
    /\ regDef # Nil /\ last.via = "default" /\ Called = <<regDef>>

\* C4: the route table holds one entry per path, the handler of the latest
\* HandleFunc for it; an event for a path registered twice calls the second
\* handler and never the first.
C4_ReRegister ==
    /\ mux.routes = regRoute
    /\ \A p \in DOMAIN regRoute :
        (IsText /\ Cmd = p) =>
            \A e \in Range(Called) : e = regRoute[p]

C4_Witness ==
    /\ IsText /\ last.ev.text = S_help
    /\ regRoute[S_help] = <<"func", "h1">>
    /\ last.log = <<<<"func", "h1">>>>
    /\ HelpHandler \notin Range(last.log)

\* C5: when S is a registered path (handler H) and also an alias of another
\* route R, a text event whose command is S calls H and not R's handler.
C5_PathBeatsAlias ==
    \A x \in DOMAIN regRoute \cap DOMAIN regAlias :
        (IsText /\ Cmd = x) =>
            /\ last.via = "route"
            /\ Invokes(regRoute[x])
            /\ (/\ regAlias[x] \in DOMAIN regRoute
                /\ regRoute[regAlias[x]] # regRoute[x])
               => regRoute[regAlias[x]] \notin Range(last.log)

C5_Witness ==
    /\ IsText /\ last.ev.text = S_start
    /\ S_start \in DOMAIN regRoute /\ S_start \in DOMAIN regAlias
    /\ regAlias[S_start] = S_help
    /\ regRoute[S_help] # regRoute[S_start]
    /\ last.via = "route" /\ Called = <<regRoute[S_start]>>

\* C6: with a file handler registered, a file upload calls the most
\* recently registered file handler and no route, alias or default handler,
\* whatever its text.
C6_FileHandler ==
    (IsFile /\ regFile # Nil) =>
        /\ last.via = "file"
        /\ last.handler = regFile
        /\ Invokes(regFile)

C6_Witness ==
    /\ IsFile /\ last.ev.text = S_help
    /\ regFile = <<"func", "h2">> /\ regDef = <<"func", "h1">>
    /\ regRoute[S_help] = HelpHandler
    /\ last.via = "file" /\ Called = <<regFile>>

\* C7: with a default handler registered, a text event whose command equals
\* no registered path and no alias (empty text, other letter case, a prefix
\* or an extension of a path) calls the default handler and no route handler.
C7_Default ==
    (IsText /\ regDef # Nil
            /\ Cmd \notin DOMAIN regRoute \cup DOMAIN regAlias) =>
        /\ last.via = "default"
        /\ last.handler = regDef
        /\ Invokes(regDef)

C7_Witness ==
    /\ IsText /\ last.ev.text = S_Help
    /\ S_start \in DOMAIN regRoute /\ S_go \in DOMAIN regAlias
    /\ regRoute[S_help] = regDef
    /\ last.via = "default" /\ Called = <<regDef>>

\* C8: with no default handler, a text event matching no route and no alias
\* calls no handler and is counted as dropped; the serve loop and the other
\* tasks are not stopped by it.
C8_Dropped ==
    /\ (IsText /\ regDef = Nil
               /\ Cmd \notin DOMAIN regRoute \cup DOMAIN regAlias) =>
          /\ last.via = "none"
          /\ last.log = <<>>
          /\ dropped >= 1
    /\ dropped <= Cardinality(DoneTasks)
    /\ (dropped >= 1 /\ lsPc = "serving" /\ nRecv < MaxEvents)
          => ENABLED ListenAndServe_Recv
    /\ \A t \in 1..MaxEvents :
          (dropped >= 1 /\ taskPc[t] = "spawned")
              => ENABLED (\E ev \in Events : ProcessMessage(t, ev))

C8_Witness ==
    /\ dropped = 1
    /\ Cardinality(DoneTasks) = 2
    /\ lsPc = "serving"
    /\ IsText /\ last.ev.text = S_help /\ last.via = "route"

-----------------------------------------------------------------------------
(* Middleware chain properties, checked under SpecChain *)

\* C9: with middlewares m1..mn added in that order, all of them calling
\* their next handler, a dispatch to handler H enters m1..mn in that order,
\* calls H, then exits mn..m1.
C9_Order ==
    (last.ev.kind # "none" /\ last.handler # Nil
        /\ \A i \in 1..Len(regMids) : CallsNext(regMids[i])) =>
        LET n == Len(regMids)
        IN /\ Len(last.log) = 2 * n + 1
           /\ last.log[n + 1] = last.handler
           /\ \A i \in 1..n :
                /\ last.log[i] = <<"enter", regMids[i]>>
                /\ last.log[2 * n + 2 - i] = <<"exit", regMids[i]>>

C9_Witness ==
    /\ regMids = <<"log", "auth">>
    /\ last.log = <<<<"enter", "log">>, <<"enter", "auth">>, HelpHandler,
                    <<"exit", "auth">>, <<"exit", "log">>>>

\* C10: when the k-th added middleware is the first that does not call its
\* next handler, a dispatch enters m1..mk, then exits mk..m1; neither the
\* handler nor a middleware added after mk runs.
C10_ShortCircuit ==
    \A k \in 1..Len(regMids) :
        (/\ last.ev.kind # "none" /\ last.handler # Nil
         /\ ~CallsNext(regMids[k])
         /\ \A i \in 1..(k - 1) : CallsNext(regMids[i])) =>
            /\ Len(last.log) = 2 * k
            /\ \A i \in 1..k :
                /\ last.log[i] = <<"enter", regMids[i]>>
                /\ last.log[2 * k + 1 - i] = <<"exit", regMids[i]>>
            /\ last.handler \notin Range(last.log)

C10_Witness ==
    /\ regMids = <<"log", "deny", "auth">>
    /\ last.handler = HelpHandler
    /\ last.log = <<<<"enter", "log">>, <<"enter", "deny">>,
                    <<"exit", "deny">>, <<"exit", "log">>>>

-----------------------------------------------------------------------------
(* Serving: the loop, its tasks, and AddMiddleware called meanwhile.         *)

Spawned == {t \in 1..MaxEvents : taskPc[t] # "none"}

InFlight == {t \in 1..MaxEvents : taskPc[t] \in {"spawned", "running"}}

\* Every task in flight can take its next step.
TasksCanStep ==
    /\ \A t \in 1..MaxEvents :
          taskPc[t] = "spawned" => ENABLED (\E ev \in TaskEvents : Task_Begin(t, ev))
    /\ \A t \in 1..MaxEvents :
          (taskPc[t] = "running" /\ "torn" \notin Range(taskRun[t].mids))
             => ENABLED Task_Finish(t)

\* The loop can receive the next update of the stream.
LoopCanReceive ==
    (lsPc = "serving" /\ stream = "open" /\ nRecv < MaxEvents)
       => ENABLED ListenAndServe_Recv

\* C11: an event's task runs with exactly the middleware list that was in
\* effect when the serve loop dispatched the event, whatever AddMiddleware
\* calls are interleaved with the task.
C11_ChainFrozenAtDispatch ==
    \A t \in 1..MaxEvents :
       taskPc[t] = "running" => taskRun[t].mids = atSpawn[t]

\* C13: while a task of an earlier event is in flight, however long it
\* runs, the loop can receive the next update, and every spawned task can
\* start its handler.
C13_LoopNeverWaits ==
    InFlight # {} => (LoopCanReceive /\ TasksCanStep)

\* A later update's handler runs while the handler of the first one has
\* not returned.
C13_Witness ==
    /\ taskPc[1] = "running"
    /\ taskPc[2] = "running"
    /\ lsPc = "serving"

C15_OneTaskPerEvent ==
    /\ Cardinality(Spawned) = nRecv
    /\ \A u \in 1..nRecv :
          Cardinality({t \in Spawned : taskUpd[t] = u}) = 1
    /\ \A t \in 1..MaxEvents : t \notin Spawned => taskUpd[t] = 0

\* Two updates were received and each has its own task.
C15_Witness ==
    /\ nRecv = 2
    /\ taskUpd[1] = 1 /\ taskUpd[2] = 2
    /\ {1, 2} \subseteq Spawned

\* C16: once the stream is closed the loop can return whatever the tasks
\* are doing and eventually does, with nil; no update is received after the
\* close; and after the return the tasks in flight can still go on.
C16_Shutdown ==
    /\ [](/\ (lsPc = "serving" /\ stream = "closed") => ENABLED ListenAndServe_Return
          /\ stream = "closed" => ~ ENABLED ListenAndServe_Recv
          /\ lsPc = "returned" => (stream = "closed" /\ chanErr = "nil" /\ TasksCanStep))
    /\ [][lsPc = "returned" => (nRecv' = nRecv /\ lsPc' = "returned"
                                 /\ \A t \in 1..MaxEvents :
                                       taskPc[t] = "none" => taskPc'[t] = "none")]_vars
    /\ (stream = "closed") ~> (lsPc = "returned")

\* The loop has returned while a task is still running, another having
\* finished.
C16_Witness ==
    /\ lsPc = "returned"
    /\ \E t \in 1..MaxEvents : taskPc[t] = "running"
    /\ \E t \in 1..MaxEvents : taskPc[t] = "done"

\* C18: ListenAndServe has returned an error exactly when GetUpdatesChan
\* returned one, the error is that one, and then no update was received, no
\* task spawned and no handler called.
C18_StreamError ==
    /\ lsPc = "failed" <=> chanErr = "err"
    /\ lsPc = "failed"
          => /\ nRecv = 0
             /\ Spawned = {}
             /\ dropped = 0
             /\ last = NoOutcome
             /\ ~ ENABLED ListenAndServe_Recv

\* GetUpdatesChan failed and ListenAndServe returned its error.
C18_Witness ==
    /\ chanErr = "err"
    /\ lsPc = "failed"

-----------------------------------------------------------------------------
(* The conversation state.                                                   *)

\* One operation applied to a store.
ApplyOp(conv, o) ==
    IF o[1] = "reset" THEN [conv EXCEPT ![o[3]] = NoState]
    ELSE [conv EXCEPT ![o[3]] = <<"state", o[2]>>]

\* The stores that the operations ops, applied one after the other in some
\* order to the empty store, can end in.
RECURSIVE Outcomes(_)
Outcomes(ops) ==
    IF ops = {} THEN {[c \in Chats |-> NoState]}
    ELSE UNION {{ApplyOp(conv, o) : conv \in Outcomes(ops \ {o})} : o \in ops}

\* C12: a Reset(c) step leaves c without state and every other chat and
\* the routing tables as they were; it changes nothing when c had no state,
\* in particular when the call before it was Reset(c) too; and a further
\* Reset(c) would change nothing.
C12_ResetIdempotent ==
    [][\A c \in Chats :
         Reset(c) =>
            /\ mux'.conv[c] = NoState
            /\ \A d \in Chats \ {c} : mux'.conv[d] = mux.conv[d]
            /\ mux' = [mux EXCEPT !.conv = mux'.conv]
            /\ mux.conv[c] = NoState => mux' = mux
            /\ (resetRun.chat = c /\ resetRun.n >= 1) => mux' = mux
            /\ Server_Reset(mux', c) = mux']_vars

\* Reset was called twice in a row for one chat while another chat has
\* state.
C12_Witness ==
    /\ resetRun.n = 2
    /\ mux.conv[resetRun.chat] = NoState
    /\ \E d \in Chats \ {resetRun.chat} : mux.conv[d] # NoState

-----------------------------------------------------------------------------
(* Registration with invalid arguments.                                      *)

-----------------------------------------------------------------------------
(* Construction.                                                             *)

\* The positions of the options of one kind in the call of NewServer.
OptsOf(kind) == {i \in 1..Len(newArgs.opts) : newArgs.opts[i][1] = kind}

\* The last option of a kind that is given.
LastOpt(kind) ==
    newArgs.opts[CHOOSE i \in OptsOf(kind) : \A j \in OptsOf(kind) : j <= i]

\* The mux in effect after the options, as the caller made it.
MuxGiven ==
    IF OptsOf("WithMux") = {} THEN NewDefaultMux
    ELSE MuxValue(LastOpt("WithMux")[2])

\* C20: a NewServer that failed to create the bot returned the error and
\* no server; one that succeeded returned a server whose fields are those
\* of the last option of each kind, or the defaults, whose bot was created
\* with the client in effect after the options, and whose mux is the one in
\* effect after the options with the paths registered through the server
\* since, "/help" with the help handler first, put over its own routes; a
\* "/help" command is routed to the help handler while the caller has not
\* registered that path again.
C20_NewServer ==
    /\ srv.phase = "err"
          => /\ newArgs.token # GoodToken
             /\ srv.isNil
             /\ srv.err # "nil"
             /\ lsPc = "idle" /\ regRoute = <<>>
    /\ srv.phase = "ok"
          => /\ newArgs.token = GoodToken
             /\ ~ srv.isNil
             /\ srv.err = "nil"
             /\ srv.httpClient = IF OptsOf("WithHttpClient") = {} THEN DefaultClient
                                 ELSE LastOpt("WithHttpClient")[2]
             /\ srv.webhookURL = IF OptsOf("WithWebhook") = {} THEN ""
                                 ELSE LastOpt("WithWebhook")[2]
             /\ srv.listenAddr = IF OptsOf("WithWebhook") = {} THEN ""
                                 ELSE LastOpt("WithWebhook")[3]
             /\ srv.bot = [token |-> newArgs.token, client |-> srv.httpClient]
             /\ S_help \in DOMAIN regRoute
             /\ mux = [MuxGiven EXCEPT
                          !.routes = [p \in DOMAIN MuxGiven.routes \cup DOMAIN regRoute |->
                                        IF p \in DOMAIN regRoute THEN regRoute[p]
                                        ELSE MuxGiven.routes[p]]]
             /\ (IsText /\ Cmd = S_help /\ regRoute[S_help] = HelpHandler)
                   => (last.via = "route" /\ last.handler = HelpHandler)

\* NewServer was given two muxes, the second of which routed "/help"
\* itself, and a "/help" command was then handled by the help handler.
C20_Witness ==
    /\ srv.phase = "ok"
    /\ newArgs.opts = <<WithMux("muxB"), WithMux("muxA")>>
    /\ IsText /\ Cmd = S_help
    /\ last.handler = HelpHandler
    /\ mux.routes[S_start] = <<"func", "h2">>

=============================================================================
